---- MODULE Spec2Model ----
(***************************************************************************)
(* Model of songdl: the foreground App (src/src/app.rs), the background    *)
(* jobs it spawns (query, save, volume offset), the Song operations they   *)
(* call (src/src/song.rs) and the external tool wrappers                   *)
(* (src/src/command.rs).                                                   *)
(***************************************************************************)
EXTENDS Integers, Sequences, FiniteSets, TLC

(* ---------------- bounds ---------------- *)
\* number of background jobs started in one behaviour
MaxJobs == 2
\* distinct non-empty byte contents a tool can produce (0 is the empty Vec)
MaxBytes == 2

\* distinct executable paths the settings can name
MaxPaths == 2

\* a source string is made of at most this many pieces
MaxPieces == 2
\* decoded audio repeats a pattern of at most this many frames
MaxPeriod == 2
\* decoded audio has at most about this many frames per waveform value
MaxChunks == 2

Bytes == 0..MaxBytes
JobIds == 1..MaxJobs

(* ---------------- strings as sequences of characters ---------------- *)
AsciiUpper == <<"A","B","C","D","E","F","G","H","I","J","K","L","M",
                "N","O","P","Q","R","S","T","U","V","W","X","Y","Z">>
AsciiLower == <<"a","b","c","d","e","f","g","h","i","j","k","l","m",
                "n","o","p","q","r","s","t","u","v","w","x","y","z">>

\* char::to_ascii_lowercase
LowerChar(c) ==
    IF \E i \in 1..26 : AsciiUpper[i] = c
    THEN AsciiLower[CHOOSE i \in 1..26 : AsciiUpper[i] = c]
    ELSE c

to_ascii_lowercase(s) == [i \in 1..Len(s) |-> LowerChar(s[i])]

\* str::replace(from, to) for a one-character pattern and replacement
replace_char(s, from, to) == [i \in 1..Len(s) |-> IF s[i] = from THEN to ELSE s[i]]

\* str::replace(c, "") for a one-character pattern
remove_char(s, c) == SelectSeq(s, LAMBDA x : x # c)

RECURSIVE remove_characters(_, _)
\* app::remove_characters: removes each pattern of the list in turn
remove_characters(s, c) ==
    IF c = <<>> THEN s
    ELSE remove_characters(remove_char(s, Head(c)), Tail(c))

FFMPEG_AUDIO_FORMAT_EXT == <<".", "m", "p", "3">>

\* the characters Song::write_to_disk strips from the file name
StrippedCharacters == <<"/", "*", ":", "?", "\"", "<", ">", "|">>

\* Song::write_to_disk: the file name derived from title and artist
filename(title, artist) ==
    remove_characters(
        replace_char(to_ascii_lowercase(title \o <<"_">> \o artist \o FFMPEG_AUDIO_FORMAT_EXT),
                     " ", "_"),
        StrippedCharacters)

(* ---------------- paths (the program is built for Windows) ---------------- *)
\* the separators of a Windows path
IsSeparator(c) == c \in {"\\", "/"}

RECURSIVE Components(_)
\* the components of a relative path string, split at the separators
Components(s) ==
    IF s = <<>> THEN <<>>
    ELSE LET firstSep == IF \E i \in 1..Len(s) : IsSeparator(s[i])
                         THEN CHOOSE i \in 1..Len(s) :
                                 /\ IsSeparator(s[i])
                                 /\ \A k \in 1..(i-1) : ~IsSeparator(s[k])
                         ELSE Len(s) + 1
             head == SubSeq(s, 1, firstSep - 1)
             rest == IF firstSep >= Len(s) THEN <<>> ELSE SubSeq(s, firstSep + 1, Len(s))
         IN  (IF head = <<>> THEN <<>> ELSE <<head>>) \o Components(rest)

\* a path string that starts at the root of the drive
HasRoot(s) == s # <<>> /\ IsSeparator(s[1])

\* PathBuf::push: a rooted argument replaces everything but the drive prefix
push(path, s) ==
    IF HasRoot(s) THEN <<path[1]>> \o Components(s)
    ELSE path \o Components(s)

RECURSIVE Normalize(_)
\* the directory entry a path names once "." and ".." are resolved
Normalize(path) ==
    IF path = <<>> THEN <<>>
    ELSE LET front == Normalize(SubSeq(path, 1, Len(path) - 1))
             last  == path[Len(path)]
         IN  IF last = <<".">> THEN front
             ELSE IF last = <<".", ".">>
                  THEN (IF Len(front) > 1 THEN SubSeq(front, 1, Len(front) - 1) ELSE front)
                  ELSE Append(front, last)

\* the directory that holds the entry a path names
Parent(path) ==
    LET n == Normalize(path) IN
    IF Len(n) > 1 THEN SubSeq(n, 1, Len(n) - 1) ELSE n


\* str::trim for the ASCII space
RECURSIVE trim_start(_)
trim_start(s) == IF s # <<>> /\ Head(s) = " " THEN trim_start(Tail(s)) ELSE s

RECURSIVE trim_end(_)
trim_end(s) ==
    IF s # <<>> /\ s[Len(s)] = " " THEN trim_end(SubSeq(s, 1, Len(s) - 1)) ELSE s

trim(s) == trim_end(trim_start(s))

(* ---------------- the Song entity ---------------- *)
\* Song::default(). audio_bytes and cover_bytes are byte contents (0 = empty);
\* volume, audio_frames and waveform hold the byte content they were computed
\* from (0 = the default value: 0.0, None, the all-zero waveform).
DefaultSong ==
    [title |-> <<>>, artist |-> <<>>, audio_bytes |-> 0, cover_bytes |-> 0,
     source_url |-> <<>>, volume |-> 0, audio_frames |-> 0, waveform |-> 0]

(* ---------------- Origin ---------------- *)
\* Origin::link_component
link_component(origin) ==
    CASE origin = "YouTube"    -> <<"y","o","u","t","u","b","e",".">>
      [] origin = "Soundcloud" -> <<"s","o","u","n","d","c","l","o","u","d",".">>
      [] OTHER                 -> <<>>

\* str::find(pattern).is_some()
contains(s, pat) ==
    \E i \in 1..(Len(s) + 1) :
        /\ i + Len(pat) - 1 <= Len(s)
        /\ SubSeq(s, i, i + Len(pat) - 1) = pat

\* the files of the local disk that a source string can name; a file name can
\* hold the text of a host
ExistingFiles ==
    { <<"f">>,
      link_component("YouTube") \o <<"f">>,
      link_component("Soundcloud") \o <<"f">>,
      link_component("Soundcloud") \o link_component("YouTube") }

\* from_link that looks for the Soundcloud host first
from_link_soundcloud_first(link) ==
    IF contains(link, link_component("Soundcloud")) THEN "Soundcloud"
    ELSE IF contains(link, link_component("YouTube")) THEN "YouTube"
    ELSE IF link \in ExistingFiles THEN "Local"
    ELSE "Unknown"

\* Origin::from_link
from_link(link) ==
    IF contains(link, link_component("YouTube")) THEN "YouTube"
    ELSE IF contains(link, link_component("Soundcloud")) THEN "Soundcloud"
    ELSE IF link \in ExistingFiles THEN "Local"
    ELSE "Unknown"

(* ---------------- inputs of the user and of the environment ---------------- *)
\* what the user can type into the source field
SourceInputs == { <<"y","o","u","t","u","b","e",".">>, <<"\"", "f">> }

\* what the user can type into the title field
TitleInputs == { <<".", ".", "\\", "x">> }

\* what the user can type into the artist field
ArtistInputs == { <<"A", "/", "B">> }

\* the destination directory the user picked, as path components
Destination == << <<"C", ":">>, <<"m">> >>

\* the directories that exist on the disk when the program starts
InitialDirs == { << <<"C", ":">> >>, Destination }

\* what the disk can hold when a thread writes: the destination may have been
\* removed since the write button was enabled
Disks == { InitialDirs, InitialDirs \ {Destination} }

(* ---------------- metadata documents ---------------- *)
\* the members of a document: Value::String and Value::Null
JString(text) == [type |-> "string", text |-> text]
JNull == [type |-> "null", text |-> <<>>]

\* a serde_json::Value: an object with members, or some other value
NotAnObject == [is_object |-> FALSE, fields |-> <<>>]
EmptyObject == [is_object |-> TRUE, fields |-> <<>>]

\* the documents the tools can emit
Docs ==
    { NotAnObject,
      [is_object |-> TRUE,
       fields |-> ("title" :> JString(<<"S">>)) @@ ("uploader" :> JString(<<"u">>))] }

\* the documents extract_metadata can build: always a Value::Object
ObjectDocs == { d \in Docs : d.is_object }

RECURSIVE escape(_)
\* serde_json's escaping of a string value (quote and backslash)
escape(s) ==
    IF s = <<>> THEN <<>>
    ELSE (IF Head(s) \in {"\"", "\\"} THEN <<"\\", Head(s)>> ELSE <<Head(s)>>) \o escape(Tail(s))

\* Value::to_string: the JSON text of the value
to_string(v) ==
    IF v.type = "null" THEN <<"n","u","l","l">>
    ELSE <<"\"">> \o escape(v.text) \o <<"\"">>

\* app::json_read
json_read(json, field) ==
    remove_char(
        to_string(IF json.is_object /\ field \in DOMAIN json.fields
                  THEN json.fields[field] ELSE JString(<<>>)),
        "\"")

\* the closure set_if_exists of Song::update_metadata_from_json
set_if_exists(struct_field, json, json_field) ==
    LET value == json_read(json, json_field) IN
    IF value # <<>> THEN value ELSE struct_field

\* Song::update_metadata_from_json
update_metadata_from_json(s, json) ==
    IF json.is_object
    THEN [s EXCEPT !.title  = set_if_exists(s.title, json, "title"),
                   !.artist = set_if_exists(set_if_exists(s.artist, json, "artist"),
                                            json, "uploader")]
    ELSE s

(* ---------------- state ---------------- *)
VARIABLES
    song,          \* DownloaderState::song, the foreground Song
    song_handle,   \* DownloaderState::song_handle: "None", or the handle's state:
                   \* "Active" (playing, pausing or paused) or "Stopped"
    song_origin,   \* DownloaderState::song_origin
    save_path,     \* DownloaderState::save_path, as path components
    loading_song,  \* DownloaderState::loading_song: 0 (None) or the job polled
    jobs,          \* every background thread spawned so far, running or finished
    crashed,       \* the foreground thread has panicked
    command_map,   \* the HashMap behind command::command_map(): name -> path,
                   \* for the names that have an entry
    last_set,      \* per name, the value of the latest set_command call
    resolved,      \* what the latest get_command call returned, and for which name
    settings,      \* App::settings: the three optional paths of the settings page
    invocations,   \* the latest thread started and, for each tool wrapper it has
                   \* called, the name it looked up and the path get_command gave
    probe,         \* a call of one of the pure functions: its name and arguments
    returned       \* what that call returned, Pending before it ran

\* the state of the application and of its threads
app_vars == <<song, song_handle, song_origin, save_path, loading_song, jobs, crashed>>

\* the state of the command registry
registry_vars == <<command_map, last_set, resolved, settings, invocations>>

\* a function call under examination
call_vars == <<probe, returned>>

vars == <<app_vars, registry_vars, call_vars>>

\* no function call is under examination
NoProbe == [fn |-> "none"]
Pending == [res |-> "pending"]
NoCall == probe = NoProbe /\ returned = Pending

(* ---------------- command registry: command.rs ---------------- *)
\* DEFAULT_YT_DL_COMMAND, DEFAULT_FFMPEG_COMMAND, DEFAULT_CURL_COMMAND
DEFAULT_YT_DL_COMMAND == <<"y","t","-","d","l","p">>
DEFAULT_FFMPEG_COMMAND == <<"f","f","m","p","e","g">>
DEFAULT_CURL_COMMAND == <<"c","u","r","l">>

\* the names the program looks up
CommandNames == {DEFAULT_YT_DL_COMMAND, DEFAULT_FFMPEG_COMMAND, DEFAULT_CURL_COMMAND}

\* the paths the settings can hold: x.exe, xx.exe, ..
ToolPath(i) == [k \in 1..i |-> "x"] \o <<".","e","x","e">>
ToolPaths == {ToolPath(i) : i \in 1..MaxPaths}

\* Option<String>
None == [some |-> FALSE, value |-> <<>>]
Some(v) == [some |-> TRUE, value |-> v]

\* HashMap::insert
insert(map, k, v) == [x \in DOMAIN map \cup {k} |-> IF x = k THEN v ELSE map[x]]

\* HashMap::remove
remove(map, k) == [x \in DOMAIN map \ {k} |-> map[x]]

\* command::get_command
get_command(map, name) == IF name \in DOMAIN map THEN map[name] ELSE name

\* set_command that ignores None and leaves the entry in the map
set_command_keeps_entry(map, name, value) ==
    IF value.some THEN insert(map, name, value.value) ELSE map

\* command::set_command: the map after the call
set_command(map, name, value) ==
    IF value.some THEN insert(map, name, value.value) ELSE remove(map, name)

\* the registry before any call: OnceLock::get_or_init(|| Mutex::new(HashMap::new()))
NeverSet == [called |-> FALSE, value |-> None]
NotResolved == [name |-> <<>>, value |-> <<>>]

\* Settings::default(): no save directory and no tool location
DefaultSettings ==
    [default_save_directory |-> None, ffmpeg_path |-> None, ytdl_path |-> None]

\* no thread has been started
NoThread == [kind |-> "none", calls |-> <<>>]

RegistryInit ==
    /\ command_map = [x \in {} |-> <<>>]
    /\ last_set = [name \in CommandNames |-> NeverSet]
    /\ resolved = NotResolved
    /\ settings = DefaultSettings
    /\ invocations = NoThread

\* a call of set_command, by App::read_config or any other caller; the lock is
\* held for the one insert or remove
CallSetCommand ==
    /\ \E name \in CommandNames, value \in {None} \cup {Some(path) : path \in ToolPaths} :
         /\ command_map' = set_command(command_map, name, value)
         /\ last_set' = [last_set EXCEPT ![name] = [called |-> TRUE, value |-> value]]
    /\ UNCHANGED <<resolved, settings, invocations, app_vars, call_vars>>

\* a call of get_command, by one of the tool wrappers; the lock is held for the
\* one lookup
CallGetCommand ==
    /\ \E name \in CommandNames :
         resolved' = [name |-> name, value |-> get_command(command_map, name)]
    /\ UNCHANGED <<command_map, last_set, settings, invocations, app_vars, call_vars>>

(* ---------------- settings page: interface.rs, app.rs ---------------- *)
\* the rows of draw_settings that hold a path
PathFields == {"default_save_directory", "ffmpeg_path", "ytdl_path"}

\* the folders the dialog of the save directory row can return
FolderTexts == { <<"C", ":">>, <<"C", ":", "\\", "m">> }

\* what rfd::FileDialog can return for a row: pick_folder for the save
\* directory, pick_file for a tool location
Picked(field) == IF field = "default_save_directory" THEN FolderTexts ELSE ToolPaths

\* path_field: the field after a click on its checkbox
checkbox_clicked(field_opt) == IF field_opt.some THEN None ELSE Some(<< >>)

\* App::read_config with the settings s
read_config(s) ==
    /\ save_path' = IF s.default_save_directory.some
                    THEN Components(s.default_save_directory.value)
                    ELSE save_path
    /\ command_map' = set_command(set_command(command_map, DEFAULT_FFMPEG_COMMAND,
                                              s.ffmpeg_path),
                                  DEFAULT_YT_DL_COMMAND, s.ytdl_path)
    /\ last_set' = [last_set EXCEPT
                      ![DEFAULT_FFMPEG_COMMAND] = [called |-> TRUE, value |-> s.ffmpeg_path],
                      ![DEFAULT_YT_DL_COMMAND] = [called |-> TRUE, value |-> s.ytdl_path]]

\* draw_settings: the checkbox of a row was clicked
ClickCheckbox ==
    /\ \E field \in PathFields :
         LET s == [settings EXCEPT ![field] = checkbox_clicked(@)] IN
         settings' = s /\ read_config(s)
    /\ UNCHANGED <<resolved, invocations, call_vars>>
    /\ UNCHANGED <<song, song_handle, song_origin, loading_song, jobs, crashed>>

\* draw_settings: a path was picked in the dialog of an enabled row
PickPath ==
    /\ \E field \in PathFields :
         /\ settings[field].some
         /\ \E path \in Picked(field) :
              LET s == [settings EXCEPT ![field] = Some(path)] IN
              settings' = s /\ read_config(s)
    /\ UNCHANGED <<resolved, invocations, call_vars>>
    /\ UNCHANGED <<song, song_handle, song_origin, loading_song, jobs, crashed>>

\* the closures a thread can run: a query of a local file, a query of a link,
\* a save and a volume offset
ThreadKinds == {"query local", "query remote", "save", "volume"}

\* the names the tool wrappers called by a closure look up, in the order of
\* the calls
ToolCalls(kind) ==
    CASE kind = "query local" ->
           \* convert_audio, extract_thumbnail, extract_metadata, get_average_volume
           << DEFAULT_FFMPEG_COMMAND, DEFAULT_FFMPEG_COMMAND,
              DEFAULT_FFMPEG_COMMAND, DEFAULT_FFMPEG_COMMAND >>
      [] kind = "query remote" ->
           \* download_audio, convert_audio, download_thumbnail, get_average_volume
           << DEFAULT_YT_DL_COMMAND, DEFAULT_FFMPEG_COMMAND,
              DEFAULT_CURL_COMMAND, DEFAULT_FFMPEG_COMMAND >>
      [] kind = "save" ->
           \* write_metadata_to_audio, write_cover_to_audio
           << DEFAULT_FFMPEG_COMMAND, DEFAULT_FFMPEG_COMMAND >>
      [] OTHER ->
           \* apply_volume_offset, get_average_volume
           << DEFAULT_FFMPEG_COMMAND, DEFAULT_FFMPEG_COMMAND >>

\* a thread is spawned: it has called no tool yet
StartThread ==
    /\ \E kind \in ThreadKinds : invocations' = [kind |-> kind, calls |-> << >>]
    /\ UNCHANGED <<command_map, last_set, resolved, settings, app_vars, call_vars>>

\* the thread calls its next tool wrapper, which looks the tool up with
\* get_command as it builds the command line
Invoke ==
    /\ invocations.kind # "none"
    /\ Len(invocations.calls) < Len(ToolCalls(invocations.kind))
    /\ LET name == ToolCalls(invocations.kind)[Len(invocations.calls) + 1]
           path == get_command(command_map, name) IN
       /\ invocations' = [invocations EXCEPT
                            !.calls = Append(@, [name |-> name, path |-> path])]
       /\ resolved' = [name |-> name, value |-> path]
    /\ UNCHANGED <<command_map, last_set, settings, app_vars, call_vars>>

\* captions of the progress channel
Info(text)    == [caption |-> text, level |-> "Info", error |-> ""]
Success(text) == [caption |-> text, level |-> "Success", error |-> ""]
\* format!("failed: {error}") at ToastLevel::Error
Failure(e)    == [caption |-> "failed: ", level |-> "Error", error |-> e]

\* the thread spawned by Promise::spawn_thread and the locals its closure
\* captured. Three fields record what happened, for the properties below:
\* playback_at_spawn is the state of the audio handle at the spawn, executed the
\* calls the closure made, failed_stage the first call that failed (an error, or
\* no output from a tool that had to write some), "" when none did.
NewJob(kind, first_caption, playback) ==
    [kind |-> kind,
     pc |-> CASE kind = "query" -> "acquire" [] kind = "save" -> "tags" [] OTHER -> "offset",
     held |-> TRUE, result |-> "none", error |-> "",
     playback_at_spawn |-> playback,
     song |-> IF kind = "query" THEN DefaultSong ELSE song,
     query_url |-> song.source_url, song_origin |-> song_origin, save_path |-> save_path,
     audio_bytes |-> 0, converted_audio_bytes |-> 0, cover_bytes |-> 0,
     audio_details |-> NotAnObject,
     captions |-> <<Info(first_caption)>>, executed |-> <<>>, failed_stage |-> "",
     writes |-> <<>>]

AppInit ==
    /\ song = DefaultSong
    /\ song_handle = "None"
    /\ song_origin = "Unknown"
    /\ save_path = Destination
    /\ loading_song = 0
    /\ jobs = <<>>
    /\ crashed = FALSE

\* the program after construction
Init == AppInit /\ RegistryInit /\ NoCall

(* ---------------- foreground: App ---------------- *)
\* App::is_song_loaded
is_song_loaded == song.audio_bytes # 0

\* App::is_song_loading
is_song_loading == loading_song # 0

\* stop_current_playing_song that never stops the handle
stop_nothing(handle) == handle

\* App::stop_current_playing_song: the state of the handle after the call
stop_current_playing_song(handle) == IF handle # "None" THEN "Stopped" ELSE handle

\* an assignment that keeps a promise that is still in the slot
keep_outstanding_handle(slot, new) == IF slot # 0 THEN slot ELSE new

\* the assignment self.downloader_state.loading_song = Some(..): the slot after it
replace_handle(slot, new) == new

\* self.downloader_state.loading_song = Some(Promise::spawn_thread(..)): the
\* Promise held before is dropped, its thread keeps running
spawn_thread(kind, first_caption, playback) ==
    /\ Len(jobs) < MaxJobs
    /\ loading_song' = replace_handle(loading_song, Len(jobs) + 1)
    /\ jobs' = [j \in 1..(Len(jobs) + 1) |->
                 LET job == IF j <= Len(jobs) THEN jobs[j]
                            ELSE NewJob(kind, first_caption, playback) IN
                 IF job.kind = "exited" THEN job
                 ELSE [job EXCEPT !.held = (loading_song' = j)]]

\* an edit of the source field that classifies the source whatever is loading
origin_reclassified(loading, origin, url) == from_link(url)

\* if !app.is_song_loading() { song_origin = Origin::from_link(..) }: the
\* stored Origin after an edit of the source field
origin_after_edit(loading, origin, url) == IF ~loading THEN from_link(url) ELSE origin

\* controls that only ask for an empty handle slot
enabled_when_idle(loaded, loading) == ~loading

\* ui.add_enabled_ui(app.is_song_loaded() && !app.is_song_loading(), ..) around
\* the options (details, volume offset, save) and the waveform bar
controls_enabled(loaded, loading) == loaded /\ ~loading

\* the source field of draw_downloader was edited
EditSource ==
    /\ ~crashed
    /\ \E text \in SourceInputs :
         LET url == remove_characters(text, << "\"" >>) IN
         /\ song' = [song EXCEPT !.source_url = url]
         /\ song_origin' = origin_after_edit(is_song_loading, song_origin, url)
    /\ UNCHANGED <<song_handle, save_path, loading_song, jobs, crashed>>
    /\ UNCHANGED <<registry_vars, call_vars>>

\* the title and artist fields of draw_options were edited (enabled only when
\* a song is loaded and none is loading)
EditDetails ==
    /\ ~crashed
    /\ controls_enabled(is_song_loaded, is_song_loading)
    /\ \E t \in TitleInputs, a \in ArtistInputs :
         song' = [song EXCEPT !.title = t, !.artist = a]
    /\ song' # song
    /\ UNCHANGED <<song_handle, song_origin, save_path, loading_song, jobs, crashed>>
    /\ UNCHANGED <<registry_vars, call_vars>>

\* App::toggle_song_playback, from the waveform bar: pause and resume keep the
\* handle active, a stopped or missing handle is replaced by App::start_song
toggle_song_playback ==
    /\ ~crashed
    /\ controls_enabled(is_song_loaded, is_song_loading)
    /\ song_handle' =
         IF song_handle = "Active" THEN "Active"
         ELSE IF song.audio_frames # 0 THEN "Active"
         ELSE stop_current_playing_song(song_handle)
    /\ song_handle' # song_handle
    /\ UNCHANGED <<song, song_origin, save_path, loading_song, jobs, crashed>>
    /\ UNCHANGED <<registry_vars, call_vars>>

\* App::query
query ==
    /\ ~crashed
    /\ song_handle' = stop_current_playing_song(song_handle)
    /\ spawn_thread("query", "initializing...", song_handle')
    /\ UNCHANGED <<song, song_origin, save_path, crashed>>
    /\ UNCHANGED <<registry_vars, call_vars>>

\* App::save, from the write button (enabled when a song is loaded, none is
\* loading and the destination exists)
save ==
    /\ ~crashed
    /\ controls_enabled(is_song_loaded, is_song_loading)
    /\ Normalize(save_path) \in InitialDirs
    /\ spawn_thread("save", "initializing...", song_handle)
    /\ UNCHANGED <<song, song_handle, song_origin, save_path, crashed>>
    /\ UNCHANGED <<registry_vars, call_vars>>

\* App::apply_volume_offset, from the apply button
apply_volume_offset ==
    /\ ~crashed
    /\ controls_enabled(is_song_loaded, is_song_loading)
    /\ song_handle' = stop_current_playing_song(song_handle)
    /\ spawn_thread("volume", "setting volume...", song_handle')
    /\ UNCHANGED <<song, song_origin, save_path, crashed>>
    /\ UNCHANGED <<registry_vars, call_vars>>

\* a finished thread whose result was taken or dropped is gone: nothing of its
\* locals remains
ExitedJob ==
    [kind |-> "exited", pc |-> "exited", held |-> FALSE,
     result |-> "none", error |-> "", playback_at_spawn |-> "None",
     song |-> DefaultSong, query_url |-> <<>>, song_origin |-> "Unknown", save_path |-> <<>>,
     audio_bytes |-> 0, converted_audio_bytes |-> 0, cover_bytes |-> 0,
     audio_details |-> NotAnObject, captions |-> <<>>, executed |-> <<>>,
     failed_stage |-> "", writes |-> <<>>]

\* is_ready that answers for the slot and not for the promise in it
is_some(slot) == slot # 0

\* Ready::is_ready: Promise::ready() of the promise in the slot
Ready_is_ready(slot) == slot # 0 /\ jobs[slot].result \in {"ok", "err"}

\* self.downloader_state.loading_song.is_ready()
is_ready == Ready_is_ready(loading_song)

\* Promise::block_and_take returns once the thread has sent its result
block_and_take_returns(slot) == jobs[slot].result # "none"

\* the sender of the held promise was dropped without a value: its thread
\* panicked, and Promise::ready() panics in turn
sender_dropped == loading_song # 0 /\ jobs[loading_song].result = "panic"

\* unwrap_and_take that reads the promise and leaves it in the slot
read_without_take(slot) == slot

\* Ready::unwrap_and_take: the slot after self.take()
unwrap_and_take(slot) == 0

\* a poll that stores whatever Song the job carried
store_any_result(current, loaded_song) == loaded_song.song

\* if let Ok(song) = loaded_song { self.downloader_state.song = song; }
store_loaded_song(current, loaded_song) ==
    IF loaded_song.result = "ok" THEN loaded_song.song ELSE current

\* App::update_state, once per frame
update_state ==
    /\ ~crashed
    /\ IF sender_dropped
       THEN /\ crashed' = TRUE
            /\ UNCHANGED <<song, loading_song, jobs>>
       ELSE IF is_ready
       THEN LET j == loading_song
                loaded_song == jobs[j] IN
            /\ block_and_take_returns(j)
            /\ loading_song' = unwrap_and_take(loading_song)
            /\ jobs' = [jobs EXCEPT ![j] = IF loading_song' = j THEN @ ELSE ExitedJob]
            /\ song' = store_loaded_song(song, loaded_song)
            /\ crashed' = crashed
       ELSE UNCHANGED <<song, loading_song, jobs, crashed>>
    /\ UNCHANGED <<song_handle, song_origin, save_path>>
    /\ UNCHANGED <<registry_vars, call_vars>>

(* ---------------- external tools: command.rs ---------------- *)
\* the Result of a wrapper: Err(error), or Ok(bytes)
Err == [ok |-> FALSE, bytes |-> 0]
Ok(b) == [ok |-> TRUE, bytes |-> b]

\* what Command::output()? can give for the stream the wrapper returns: Err
\* when the executable cannot be spawned, else the bytes of the stream, drawn
\* from range. A tool that is given an empty input file writes nothing.
tool_output(inputs, range) ==
    {Err} \cup {Ok(b) : b \in (IF 0 \in inputs THEN {0} ELSE range)}

\* the contents of a download, of a local file, of its conversion and of a
\* cover image: empty or not
RawBytes == {0, 1}

\* command::write_metadata_to_audio: Ok(stdout) whatever the tool did
write_metadata_to_audio(audio_bytes, out) == out

\* command::write_cover_to_audio: Ok(the bytes of the output file) whatever
\* the tool did
write_cover_to_audio(audio_bytes, cover_bytes, out) == out

(* ---------------- Song operations: song.rs ---------------- *)
\* Song::trim (called by generate_metadata_tuples)
Song_trim(s) == [s EXCEPT !.title = trim(s.title), !.artist = trim(s.artist)]

\* Song::update_bytes_from_metadata; tags_out and cover_out are what the two
\* tool runs give
update_bytes_from_metadata(s, tags_out, cover_out) ==
    LET s1 == Song_trim(s)
        audio_bytes_with_metadata == write_metadata_to_audio(s1.audio_bytes, tags_out)
        audio_bytes_with_cover ==
            write_cover_to_audio(audio_bytes_with_metadata.bytes, s1.cover_bytes, cover_out)
    IN  IF ~audio_bytes_with_metadata.ok
        THEN [res |-> "err", song |-> s1, ran |-> <<"write_metadata_to_audio">>]
        ELSE IF ~audio_bytes_with_cover.ok
        THEN [res |-> "err", song |-> s1,
              ran |-> <<"write_metadata_to_audio", "write_cover_to_audio">>]
        ELSE [res |-> "ok", song |-> [s1 EXCEPT !.audio_bytes = audio_bytes_with_cover.bytes],
              ran |-> <<"write_metadata_to_audio", "write_cover_to_audio">>]

\* Song::write_to_disk: the path handed to std::fs::write
final_save_path(s, path) == push(path, filename(s.title, s.artist))

\* std::fs::write succeeds when the directory that holds the entry exists
fs_write_ok(path, existing) == Parent(path) \in existing /\ Normalize(path) \notin existing

\* what StaticSoundData::from_cursor and the bucket loop can do with the bytes:
\* a decode error, a panic of chunks_exact(0) when fewer than WAVEFORM_LENGTH
\* frames were decoded, or a waveform
decode_outcomes(audio_bytes) ==
    IF audio_bytes = 0 THEN {"err"} ELSE {"err", "panic", "ok"}

\* Song::update_audio_frames
update_audio_frames(s, outcome) ==
    IF outcome = "ok"
    THEN [res |-> "ok", song |-> [s EXCEPT !.audio_frames = s.audio_bytes,
                                          !.waveform = s.audio_bytes]]
    ELSE [res |-> outcome, song |-> s]

\* what get_average_volume can give: an error (no mean_volume in the report)
\* or a value
volume_outcomes(audio_bytes) ==
    IF audio_bytes = 0 THEN {"err"} ELSE {"err", "ok"}

\* Song::update_current_volume
update_current_volume(s, outcome) ==
    IF outcome = "ok"
    THEN [res |-> "ok", song |-> [s EXCEPT !.volume = s.audio_bytes]]
    ELSE [res |-> "err", song |-> s]

(* ---------------- waveform analysis: song.rs ---------------- *)
WAVEFORM_LENGTH == 230

\* f32 values: NaN, an infinity with its sign, or the quotient of two integers
\* num / den with den > 0
NaN == [kind |-> "nan", num |-> 0, den |-> 1]
Infinity(sign) == [kind |-> "inf", num |-> sign, den |-> 1]
Finite(num, den) == [kind |-> "finite", num |-> num, den |-> den]

\* a < b for two f32 values that are not NaN
f32_lt(a, b) ==
    CASE a.kind = "inf" -> a.num < 0 /\ ~(b.kind = "inf" /\ b.num < 0)
      [] b.kind = "inf" -> b.num > 0
      [] OTHER          -> a.num * b.den < b.num * a.den

\* f32::max: the other operand when one is NaN
f32_max(a, b) ==
    IF a.kind = "nan" THEN b
    ELSE IF b.kind = "nan" THEN a
    ELSE IF f32_lt(a, b) THEN b ELSE a

\* the f32 division a / b
f32_div(a, b) ==
    CASE a.kind = "nan" \/ b.kind = "nan"     -> NaN
      [] a.kind = "inf" /\ b.kind = "inf"     -> NaN
      [] a.kind = "inf"                       -> Infinity(IF b.num < 0 THEN -a.num ELSE a.num)
      [] b.kind = "inf"                       -> Finite(0, 1)
      [] b.num = 0 /\ a.num = 0               -> NaN
      [] b.num = 0                            -> Infinity(IF a.num < 0 THEN -1 ELSE 1)
      [] b.num < 0                            -> Finite(-(a.num * b.den), a.den * (-b.num))
      [] OTHER                                -> Finite(a.num * b.den, a.den * b.num)

RECURSIVE fold_max(_, _, _)
\* f[lo..hi].iter().cloned().fold(f32::NAN, f32::max), folded by halves
fold_max(f, lo, hi) ==
    IF lo > hi THEN NaN
    ELSE IF lo = hi THEN f32_max(NaN, f[lo])
    ELSE LET mid == (lo + hi) \div 2 IN
         f32_max(fold_max(f, lo, mid), fold_max(f, mid + 1, hi))

\* the closure f_max of Song::update_audio_frames
f_max(f) == fold_max(f, 1, Len(f))

\* (f.left as f32 + f.right as f32) * 0.5 for every frame
mono_frames(frames) ==
    [i \in 1..Len(frames) |-> Finite(frames[i].left + frames[i].right, 2)]

\* slice::chunks_exact(size) for size > 0: the whole chunks, the rest is left out
chunks_exact(f, size) ==
    [k \in 1..(Len(f) \div size) |-> SubSeq(f, (k - 1) * size + 1, k * size)]

\* Waveform::new: the values when there are WAVEFORM_LENGTH of them, else zeros
Waveform_new(values) ==
    IF Len(values) = WAVEFORM_LENGTH THEN values
    ELSE [i \in 1..WAVEFORM_LENGTH |-> Finite(0, 1)]

\* Song::update_audio_frames on the bytes of a sound: sound.decodable tells
\* whether StaticSoundData::from_cursor accepts them, sound.frames are the
\* frames it decodes. chunks_exact(0) panics.
analyze_audio_frames(sound) ==
    IF ~sound.decodable THEN [res |-> "err", waveform |-> <<>>]
    ELSE LET mono == mono_frames(sound.frames)
             num_chunks == Len(mono) \div WAVEFORM_LENGTH IN
         IF num_chunks = 0 THEN [res |-> "panic", waveform |-> <<>>]
         ELSE LET chunks == chunks_exact(mono, num_chunks)
                  waveform == [k \in 1..Len(chunks) |-> f_max(chunks[k])]
                  max == f_max(waveform)
                  scaled == [k \in 1..Len(waveform) |-> f32_div(waveform[k], max)] IN
              [res |-> "ok", waveform |-> Waveform_new(scaled)]

(* ---------------- calls of the pure functions ---------------- *)
\* the samples of a decoded frame, as multiples of the full amplitude
Samples == {-1, 0, 1}
StereoFrames == [left : Samples, right : Samples]

\* the numbers of frames a sound can decode to: none, one, and around the
\* multiples of WAVEFORM_LENGTH
FrameCounts ==
    {0, 1} \cup {k * WAVEFORM_LENGTH + d : k \in 1..MaxChunks, d \in {-1, 0, 1}}

\* the frames of a sound that repeats pattern
frames_of(count, pattern) ==
    [i \in 1..count |-> pattern[((i - 1) % Len(pattern)) + 1]]

\* the sounds handed to the analysis
SoundProbes ==
    {[fn |-> "update_audio_frames", decodable |-> FALSE, count |-> 1,
      pattern |-> <<[left |-> 0, right |-> 0]>>]}
    \cup {[fn |-> "update_audio_frames", decodable |-> TRUE, count |-> c, pattern |-> p] :
            c \in FrameCounts,
            p \in UNION {[1..n -> StereoFrames] : n \in 1..MaxPeriod}}

\* titles and artists handed to Song::write_to_disk
FileTitles ==
    { <<"T","e","s","t"," ","S","o","n","g">>, <<"a",":","B","?">>, <<".",".","\\","x">>, <<>> }
FileArtists == { <<"A","/","B">>, <<"\"","Q","\""," ","<","*",">","|">>, <<"c">> }
FileProbes == {[fn |-> "write_to_disk", title |-> t, artist |-> a] :
                 t \in FileTitles, a \in FileArtists}

\* titles and artists of a Song before a merge, and the documents merged
MergeTexts == { <<>>, <<"X">> }
MemberValues == { JString(<<>>), JString(<<"N">>), JNull }
MergeKeys == {"title", "artist", "uploader"}
MergeDocs ==
    {NotAnObject} \cup
    UNION {{[is_object |-> TRUE, fields |-> f] : f \in [keys -> MemberValues]} :
             keys \in SUBSET MergeKeys}
MergeProbes ==
    {[fn |-> "update_metadata_from_json", title |-> t, artist |-> a, json |-> d] :
       t \in MergeTexts, a \in MergeTexts, d \in MergeDocs}

\* source strings: up to MaxPieces pieces, each a host fragment or a letter
LinkPieces == {link_component("YouTube"), link_component("Soundcloud"), <<"f">>}
RECURSIVE Links(_)
Links(n) ==
    IF n = 0 THEN {<<>>}
    ELSE Links(n - 1) \cup {l \o piece : l \in Links(n - 1), piece \in LinkPieces}
LinkProbes == {[fn |-> "from_link", link |-> l] : l \in Links(MaxPieces)}

\* a call is picked; it has not run
CallsInit ==
    /\ AppInit /\ RegistryInit
    /\ probe \in SoundProbes \cup FileProbes \cup MergeProbes \cup LinkProbes
    /\ returned = Pending

\* Song::update_audio_frames runs on the sound
Call_update_audio_frames ==
    /\ probe.fn = "update_audio_frames" /\ returned = Pending
    /\ returned' = analyze_audio_frames(
                       [decodable |-> probe.decodable,
                        frames |-> frames_of(probe.count, probe.pattern)])
    /\ UNCHANGED <<probe, app_vars, registry_vars>>

\* Song::write_to_disk derives the file name
Call_write_to_disk ==
    /\ probe.fn = "write_to_disk" /\ returned = Pending
    /\ returned' = [res |-> "ok", filename |-> filename(probe.title, probe.artist)]
    /\ UNCHANGED <<probe, app_vars, registry_vars>>

\* Song::update_metadata_from_json merges the document
Call_update_metadata_from_json ==
    /\ probe.fn = "update_metadata_from_json" /\ returned = Pending
    /\ returned' = [res |-> "ok",
                    song |-> update_metadata_from_json(
                                 [DefaultSong EXCEPT !.title = probe.title,
                                                     !.artist = probe.artist],
                                 probe.json)]
    /\ UNCHANGED <<probe, app_vars, registry_vars>>

\* Origin::from_link classifies the source
Call_from_link ==
    /\ probe.fn = "from_link" /\ returned = Pending
    /\ returned' = [res |-> "ok", origin |-> from_link(probe.link)]
    /\ UNCHANGED <<probe, app_vars, registry_vars>>

CallsNext ==
    \/ Call_update_audio_frames
    \/ Call_write_to_disk
    \/ Call_update_metadata_from_json
    \/ Call_from_link

CallsSpec == CallsInit /\ [][CallsNext]_vars

(* ---------------- background threads ---------------- *)
say(job, text) == [job EXCEPT !.captions = Append(@, Info(text))]
ran(job, stage) == [job EXCEPT !.executed = Append(@, stage)]

\* the locals of the closure and what it captured go out of scope when it
\* returns
drop_locals(job) ==
    [job EXCEPT !.audio_bytes = 0, !.converted_audio_bytes = 0, !.cover_bytes = 0,
                !.audio_details = NotAnObject, !.query_url = <<>>,
                !.song_origin = "Unknown", !.save_path = <<>>,
                !.playback_at_spawn = "None"]

\* the error arm of the closures: one Error caption, then return Err(error);
\* the Song the closure worked on is dropped
fail(job, e) ==
    [drop_locals(job) EXCEPT !.pc = "done", !.result = "err", !.error = e,
                             !.song = DefaultSong,
                             !.failed_stage = IF @ = "" THEN job.executed[Len(job.executed)]
                                              ELSE @,
                             !.captions = Append(@, Failure(e))]

\* the thread unwinds: nothing is sent, the sender is dropped
panic(job) ==
    [drop_locals(job) EXCEPT !.pc = "done", !.result = "panic", !.song = DefaultSong]

\* the closure returns Ok(song)
succeed(job) == [drop_locals(job) EXCEPT !.pc = "done", !.result = "ok"]

is_local(job) == job.song_origin = "Local"

\* a query closure that leaves the source of the new Song as it was created
commit_without_source(job) ==
    [job EXCEPT !.song.cover_bytes = job.cover_bytes,
                !.song.audio_bytes = job.converted_audio_bytes]

\* the three assignments that end each branch of the query closure
commit(job) ==
    [job EXCEPT !.song.cover_bytes = job.cover_bytes,
                !.song.audio_bytes = job.converted_audio_bytes,
                !.song.source_url = job.query_url]

\* Each stage below is the set of records the thread can be in after the stage,
\* one per outcome of the tool or library call the stage makes.

\* query: fs::read of a local file, or download_audio
QueryAcquire(job) ==
    IF is_local(job)
    THEN LET job1 == ran(say(job, "reading..."), "read") IN
         {fail(job1, "io error")} \cup
         (IF job.query_url \in ExistingFiles
          THEN {IF b = 0 THEN fail(job1, "read error")
                ELSE [job1 EXCEPT !.audio_bytes = b, !.pc = "convert"] : b \in RawBytes}
          ELSE {})
    ELSE LET job1 == ran(say(job, "downloading audio..."), "download_audio") IN
         {IF ~x[1].ok THEN fail(job1, "io error")
          ELSE IF x[1].bytes = 0 THEN fail(job1, "download error")
          ELSE [job1 EXCEPT !.audio_bytes = x[1].bytes, !.audio_details = x[2],
                            !.pc = "convert"] : x \in tool_output({}, RawBytes) \X Docs}

\* query: convert_audio and the check of its output
QueryConvert(job) ==
    LET job1 == ran(say(job, "converting audio..."), "convert_audio") IN
    {IF ~out.ok THEN fail(job1, "io error")
     ELSE IF out.bytes = 0 THEN fail(job1, "audio conversion error")
     ELSE [job1 EXCEPT !.converted_audio_bytes = out.bytes, !.pc = "thumbnail"]
       : out \in tool_output({job1.audio_bytes}, RawBytes)}

\* query: extract_thumbnail (local) or download_thumbnail (remote)
QueryThumbnail(job) ==
    LET job1 == IF is_local(job)
                THEN ran(say(job, "extracting thumbnail..."), "extract_thumbnail")
                ELSE ran(say(job, "downloading thumbnail..."), "download_thumbnail") IN
    {IF ~out.ok THEN fail(job1, "io error")
     ELSE [job1 EXCEPT !.cover_bytes = out.bytes,
                       !.pc = IF is_local(job) THEN "cover" ELSE "metadata"]
       : out \in tool_output({job.audio_bytes}, RawBytes)}

\* query: image::load_from_memory and load_egui_image when a cover was found
QueryCover(job) ==
    LET job1 == say(job, "loading cover...")
        next == IF is_local(job) THEN [job1 EXCEPT !.pc = "metadata"]
                ELSE [commit(job1) EXCEPT !.pc = "frames"] IN
    IF job.cover_bytes = 0 THEN {next}
    ELSE {fail(ran(job1, "load_from_memory"), "image error"), ran(next, "load_from_memory")}

\* query: extract_metadata (local) and Song::update_metadata_from_json
QueryMetadata(job) ==
    LET job1 == say(job, "parsing metadata...") IN
    IF is_local(job)
    THEN LET job2 == ran(job1, "extract_metadata") IN
         {fail(job2, "io error")} \cup
         {[commit(ran([job2 EXCEPT !.song = update_metadata_from_json(@, d)],
                      "update_metadata_from_json"))
             EXCEPT !.pc = "frames"] : d \in ObjectDocs}
    ELSE {[ran(job1, "update_metadata_from_json")
             EXCEPT !.song = update_metadata_from_json(@, job.audio_details),
                    !.pc = "cover"]}

\* query and volume offset: Song::update_audio_frames
JobFrames(job) ==
    LET job1 == ran(IF job.kind = "query" THEN say(job, "reading song...") ELSE job,
                    "update_audio_frames") IN
    {LET r == update_audio_frames(job.song, outcome)
         job2 == [job1 EXCEPT !.song = r.song] IN
     CASE r.res = "err"   -> fail(job2, "decode error")
       [] r.res = "panic" -> panic(job2)
       [] OTHER -> IF job.kind = "query" THEN [job2 EXCEPT !.pc = "volume"]
                   ELSE succeed(job2)
       : outcome \in decode_outcomes(job.song.audio_bytes)}

\* query and volume offset: Song::update_current_volume
JobVolume(job) ==
    LET job1 == ran(job, "update_current_volume") IN
    {LET r == update_current_volume(job.song, outcome)
         job2 == [job1 EXCEPT !.song = r.song] IN
     IF r.res = "err" THEN fail(job2, "couldn't get volume")
     ELSE IF job.kind = "query" THEN succeed(job2)
     ELSE [job2 EXCEPT !.pc = "frames"]
       : outcome \in volume_outcomes(job.song.audio_bytes)}

\* volume offset: the first statement of Song::apply_volume_offset
VolumeOffset(job) ==
    LET job1 == ran(job, "apply_volume_offset") IN
    {IF ~out.ok THEN fail(job1, "io error")
     ELSE [job1 EXCEPT !.song.audio_bytes = out.bytes, !.pc = "volume",
                       !.failed_stage = IF out.bytes = 0 THEN "apply_volume_offset" ELSE @]
       : out \in tool_output({job1.song.audio_bytes}, Bytes)}

\* save: Song::update_bytes_from_metadata
SaveRemux(job) ==
    LET job1 == say(job, "updating song metadata...") IN
    UNION {
      {LET r == update_bytes_from_metadata(job1.song, tags_out, cover_out)
           job2 == [job1 EXCEPT !.song = r.song, !.executed = @ \o r.ran,
                                !.failed_stage =
                                    IF tags_out.ok /\ tags_out.bytes = 0
                                    THEN "write_metadata_to_audio"
                                    ELSE IF tags_out.ok /\ cover_out.ok /\ cover_out.bytes = 0
                                    THEN "write_cover_to_audio"
                                    ELSE @] IN
       IF r.res = "err" THEN fail(job2, "io error") ELSE [job2 EXCEPT !.pc = "write"]
         : cover_out \in tool_output({tags_out.bytes, job1.song.cover_bytes}, Bytes)}
      : tags_out \in tool_output({job1.song.audio_bytes}, Bytes)}

\* save: Song::write_to_disk and the closing caption
SaveWrite(job, existing) ==
    LET job1 == ran(say(job, "writing song to disk..."), "write_to_disk")
        path == final_save_path(job1.song, job1.save_path) IN
    {IF fs_write_ok(path, existing)
     THEN succeed([job1 EXCEPT !.writes = Append(@, path),
                               !.captions = Append(@, Success("saved"))])
     ELSE fail(job1, "io error")}

\* the next statement of the closure
stage(job, existing) ==
    CASE job.pc = "acquire"   -> QueryAcquire(job)
      [] job.pc = "convert"   -> QueryConvert(job)
      [] job.pc = "thumbnail" -> QueryThumbnail(job)
      [] job.pc = "cover"     -> QueryCover(job)
      [] job.pc = "metadata"  -> QueryMetadata(job)
      [] job.pc = "frames"    -> JobFrames(job)
      [] job.pc = "volume"    -> JobVolume(job)
      [] job.pc = "offset"    -> VolumeOffset(job)
      [] job.pc = "tags"      -> SaveRemux(job)
      [] job.pc = "write"     -> SaveWrite(job, existing)
      [] OTHER                -> {job}

RECURSIVE closure(_, _)
\* the closure of a thread run to its end: every record it can end in
closure(job, existing) ==
    IF job.pc = "done" THEN {job}
    ELSE UNION {closure(next, existing) : next \in stage(job, existing)}

\* a background thread runs its closure; it shares nothing with the foreground,
\* so its statements are run in one step
Worker(j) ==
    /\ j \in 1..Len(jobs)
    /\ jobs[j].pc \notin {"done", "exited"}
    /\ \E existing \in Disks :
         \E end \in closure(jobs[j], existing) : jobs' = [jobs EXCEPT ![j] = end]
    /\ UNCHANGED <<song, song_handle, song_origin, save_path, loading_song, crashed>>
    /\ UNCHANGED <<registry_vars, call_vars>>

\* a superseded thread returns: its result is dropped with it
ThreadExit(j) ==
    /\ j \in 1..Len(jobs)
    /\ jobs[j].pc = "done" /\ ~jobs[j].held
    /\ jobs' = [jobs EXCEPT ![j] = ExitedJob]
    /\ UNCHANGED <<song, song_handle, song_origin, save_path, loading_song, crashed>>
    /\ UNCHANGED <<registry_vars, call_vars>>

Next ==
    \/ EditSource
    \/ EditDetails
    \/ toggle_song_playback
    \/ query
    \/ save
    \/ apply_volume_offset
    \/ update_state
    \/ \E j \in JobIds : Worker(j)
    \/ \E j \in JobIds : ThreadExit(j)

Spec == Init /\ [][Next]_vars

\* a spawned thread that has not reached the end of its closure: the states
\* in which Worker(j) is enabled
thread_running(j) == j \in 1..Len(jobs) /\ jobs[j].pc \notin {"done", "exited"}

\* the program when every thread runs to its end (the tools it calls
\* terminate) and the event loop keeps calling update_state. Only Worker(j)
\* ends thread_running(j), and it is enabled in exactly those states, so the
\* last conjunct is WF_vars(Worker(j)) stated on the thread's position.
FairSpec ==
    /\ Spec
    /\ WF_vars(update_state)
    /\ \A j \in JobIds : []<>(~thread_running(j))

\* the settings page and the tool calls of a thread
SettingsNext ==
    \/ ClickCheckbox
    \/ PickPath
    \/ StartThread
    \/ Invoke

SettingsSpec == Init /\ [][SettingsNext]_vars

\* the command registry under any sequence of calls
RegistryNext ==
    \/ CallSetCommand
    \/ CallGetCommand

RegistrySpec == Init /\ [][RegistryNext]_vars

(* ======================= properties ======================= *)
Started == 1..Len(jobs)

Last(seq) == seq[Len(seq)]

\* C1: a poll that consumes a failed job leaves the foreground Song as it was;
\* a poll changes the Song only by storing the Song of a job that resolved to
\* success, and nothing but such a poll changes the Song's audio bytes.
C1_FailedJobKeepsSong ==
    [][/\ update_state =>
             /\ (is_ready /\ jobs[loading_song].result = "err") => song' = song
             /\ song' # song =>
                    /\ is_ready
                    /\ jobs[loading_song].result = "ok"
                    /\ song' = jobs[loading_song].song
       /\ song'.audio_bytes # song.audio_bytes => update_state]_vars

\* a job started on a loaded Song has resolved to a failure and is about to be
\* polled
C1_Witness ==
    /\ is_ready
    /\ jobs[loading_song].result = "err"
    /\ song.audio_bytes # 0
    /\ song.title # <<>>

\* C2: whatever jobs were started and whichever of them completed, a poll
\* leaves the foreground Song as it was or stores the success result of the job
\* started last; a superseded thread still runs to its end.
C2_OnlyLatestJobApplied ==
    [][update_state =>
          \/ song' = song
          \/ /\ Len(jobs) > 0
             /\ jobs[Len(jobs)].result = "ok"
             /\ song' = jobs[Len(jobs)].song]_vars

\* a superseded job has run to a successful end, a newer job is polled, and the
\* foreground Song is not the superseded job's
C2_Witness ==
    \E j \in Started :
        /\ j < Len(jobs)
        /\ jobs[j].pc = "done" /\ jobs[j].result = "ok"
        /\ loading_song = Len(jobs)
        /\ song # jobs[j].song

\* C3: a poll never waits; while the polled thread runs it changes nothing and
\* keeps the handle, and once the thread has resolved it takes the result and
\* empties the slot, so that the result is gone and is never polled again.
C3_PollTakesOnce ==
    [][/\ update_state =>
             /\ (loading_song # 0 /\ jobs[loading_song].result = "none") =>
                    /\ loading_song' = loading_song
                    /\ jobs' = jobs
                    /\ song' = song
             /\ is_ready =>
                    /\ loading_song' = 0
                    /\ jobs'[loading_song] = ExitedJob
       /\ \A j \in Started : jobs[j] = ExitedJob => (jobs'[j] = ExitedJob /\ loading_song' # j)
      ]_vars

\* the first job's success result was taken by a poll: the slot is empty
\* again, the result is gone and the Song is loaded
C3_Witness ==
    /\ Len(jobs) = 1
    /\ jobs[1] = ExitedJob
    /\ loading_song = 0
    /\ song.audio_bytes # 0

\* C4: the foreground holds at most one job handle per kind of operation, the
\* one in the slot it polls, and that is the handle of the job started last.
C4_OneHandlePerKind ==
    /\ \A kind \in {"query", "save", "volume"} :
          Cardinality({j \in Started : jobs[j].held /\ jobs[j].kind = kind}) <= 1
    /\ \A j \in Started : jobs[j].held <=> (loading_song = j)
    /\ loading_song \in {0, Len(jobs)}

\* a query was started while an older query was still running: the older
\* thread runs on without a handle, the newer one is polled
C4_Witness ==
    \E j \in Started :
        /\ j < Len(jobs)
        /\ jobs[j].kind = "query" /\ jobs[j].pc = "acquire" /\ ~jobs[j].held
        /\ jobs[Len(jobs)].kind = "query" /\ jobs[Len(jobs)].held

\* C5: in every query and save job, once a stage has failed no later stage is
\* executed, exactly one caption at Error level carrying the error text is
\* emitted, and the job resolves to a failure.
C5_FailFast ==
    \A j \in Started :
        (jobs[j].kind \in {"query", "save"} /\ jobs[j].pc = "done"
            /\ jobs[j].failed_stage # "") =>
            /\ jobs[j].result = "err"
            /\ Last(jobs[j].executed) = jobs[j].failed_stage
            /\ Cardinality({i \in 1..Len(jobs[j].captions) :
                               jobs[j].captions[i].level = "Error"}) = 1
            /\ \A i \in 1..Len(jobs[j].captions) :
                   jobs[j].captions[i].level = "Error" => jobs[j].captions[i].error # ""

\* C6: the caption stream of every job that has resolved ends with a Success
\* caption when it resolved to success and with an Error caption when it
\* resolved to failure.
C6_TerminalCaption ==
    \A j \in Started :
        /\ jobs[j].result = "ok"  => Last(jobs[j].captions).level = "Success"
        /\ jobs[j].result = "err" => Last(jobs[j].captions).level = "Error"

\* C7: when the thread of a query is spawned the audio handle has been stopped:
\* no query thread was spawned with active playback, and playback is not active
\* while a query is polled.
C7_StopBeforeSpawn ==
    /\ \A j \in Started :
          (jobs[j].kind = "query" /\ jobs[j].pc = "acquire") =>
              jobs[j].playback_at_spawn # "Active"
    /\ (loading_song # 0 /\ jobs[loading_song].kind = "query") => song_handle # "Active"

\* the first query loaded a Song, it was played, and the second query was
\* spawned with the handle stopped
C7_Witness ==
    /\ Len(jobs) = 2
    /\ jobs[2].kind = "query" /\ jobs[2].pc = "acquire"
    /\ jobs[2].playback_at_spawn = "Stopped"
    /\ song_handle = "Stopped"

\* a remux stage failed: the tool could not be run or wrote nothing
RemuxStageFailed(tags_out, cover_out) ==
    \/ ~tags_out.ok \/ tags_out.bytes = 0
    \/ ~cover_out.ok \/ cover_out.bytes = 0

\* C8: for every save about to remux and whatever the two tool runs give, a
\* failed remux stage makes update_bytes_from_metadata report an error and
\* leaves audio_bytes at their value before the call, and audio_bytes is never
\* left empty.
C8_RemuxFailureKeepsBytes ==
    \A j \in Started :
        (jobs[j].kind = "save" /\ jobs[j].pc = "tags") =>
            \A tags_out \in tool_output({jobs[j].song.audio_bytes}, Bytes) :
            \A cover_out \in tool_output({tags_out.bytes, jobs[j].song.cover_bytes}, Bytes) :
                LET r == update_bytes_from_metadata(jobs[j].song, tags_out, cover_out) IN
                /\ RemuxStageFailed(tags_out, cover_out) =>
                       /\ r.res = "err"
                       /\ r.song.audio_bytes = jobs[j].song.audio_bytes
                /\ r.song.audio_bytes # 0

Position(seq, x) == CHOOSE i \in 1..Len(seq) : seq[i] = x

\* C9: a save writes the file only after both remux stages ran and succeeded,
\* and a save whose destination directory is missing resolves to failure.
C9_WriteOnlyAfterRemux ==
    \A j \in Started :
        /\ (jobs[j].kind = "save" /\ jobs[j].pc = "done" /\ jobs[j].writes # <<>>) =>
               /\ jobs[j].failed_stage = ""
               /\ Position(jobs[j].executed, "write_metadata_to_audio")
                    < Position(jobs[j].executed, "write_to_disk")
               /\ Position(jobs[j].executed, "write_cover_to_audio")
                    < Position(jobs[j].executed, "write_to_disk")
        /\ (jobs[j].kind = "save" /\ jobs[j].pc = "tags") =>
               \A end \in closure(jobs[j], InitialDirs \ {Destination}) :
                   end.result = "err" /\ end.writes = <<>>

\* C10: every save writes at most one file, and that file lies in the
\* destination directory itself.
C10_WriteInDestination ==
    \A j \in Started :
        /\ Len(jobs[j].writes) <= 1
        /\ \A i \in 1..Len(jobs[j].writes) :
               Parent(jobs[j].writes[i]) = Normalize(save_path)

\* what the calls made so far say a name resolves to
Expected(name) ==
    IF last_set[name].called /\ last_set[name].value.some
    THEN last_set[name].value.value
    ELSE name

\* C17: after any sequence of set_command calls, get_command of a name gives
\* the path of the latest set_command of that name when it carried a path and
\* the bare name when the name was never set or was last set to None; a
\* set_command of one name changes the resolution of no other name, and a
\* get_command returns that resolution.
C17_ResolveLatest ==
    [][/\ \A name \in CommandNames : get_command(command_map', name) = Expected(name)'
       /\ \A name \in CommandNames :
             last_set'[name] = last_set[name] =>
                 get_command(command_map', name) = get_command(command_map, name)
       /\ resolved' # resolved => resolved'.value = Expected(resolved'.name)]_vars

\* one name was set to a path and then to None and resolves to itself, a
\* second holds a path and a lookup returned it, the third was never set
C17_Witness ==
    /\ last_set[DEFAULT_FFMPEG_COMMAND] = [called |-> TRUE, value |-> None]
    /\ last_set[DEFAULT_YT_DL_COMMAND].value.some
    /\ ~last_set[DEFAULT_CURL_COMMAND].called
    /\ resolved = [name |-> DEFAULT_YT_DL_COMMAND, value |-> ToolPath(MaxPaths)]
    /\ get_command(command_map, DEFAULT_FFMPEG_COMMAND) = DEFAULT_FFMPEG_COMMAND

\* C18: the foreground never waits for a worker: as long as it has not
\* crashed, its poll can complete in every state, whatever the workers are
\* doing and also when a worker never finishes, because the blocking take is
\* made only on a promise that was seen ready.
C18_ForegroundNeverWaits == ~crashed => ENABLED update_state

\* the polled query thread has not finished (its tool may never return), and
\* the foreground has gone on to edit the source field
C18_Witness ==
    /\ loading_song # 0
    /\ jobs[loading_song].kind = "query"
    /\ jobs[loading_song].result = "none"
    /\ jobs[loading_song].query_url # song.source_url
    /\ ~crashed

\* C19: whenever the foreground Song has audio bytes, its decoded frames, its
\* waveform and its volume were computed from those bytes.
C19_DerivedDataCurrent ==
    song.audio_bytes # 0 =>
        /\ song.audio_frames = song.audio_bytes
        /\ song.waveform = song.audio_bytes
        /\ song.volume = song.audio_bytes

\* the place of a call in the order acquire, convert, thumbnail, metadata
\* normalization, volume analysis, waveform analysis (0: none of these)
StageRank(call) ==
    CASE call \in {"read", "download_audio"}                          -> 1
      [] call = "convert_audio"                                       -> 2
      [] call \in {"extract_thumbnail", "download_thumbnail"}         -> 3
      [] call \in {"extract_metadata", "update_metadata_from_json"}   -> 4
      [] call = "update_current_volume"                               -> 5
      [] call = "update_audio_frames"                                 -> 6
      [] OTHER                                                        -> 0

\* C20: the calls of every query job are made in the order acquire, convert,
\* thumbnail, metadata normalization, volume analysis, waveform analysis, and
\* a query that succeeded made all of them.
C20_QueryStageOrder ==
    \A j \in Started :
        jobs[j].kind = "query" =>
            /\ \A a, b \in 1..Len(jobs[j].executed) :
                   (a < b /\ StageRank(jobs[j].executed[a]) # 0
                          /\ StageRank(jobs[j].executed[b]) # 0) =>
                       StageRank(jobs[j].executed[a]) <= StageRank(jobs[j].executed[b])
            /\ jobs[j].result = "ok" =>
                   {StageRank(jobs[j].executed[a]) : a \in 1..Len(jobs[j].executed)} \ {0}
                       = 1..6

\* the call under examination has returned
Returned(fn) == probe.fn = fn /\ returned # Pending

\* the characters Windows reserves in file names
ReservedCharacters == {"<", ">", ":", "\"", "/", "\\", "|", "?", "*"}

\* '<title>_<artist><ext>' lowercased, spaces replaced, reserved characters removed
SafeName(title, artist) ==
    SelectSeq([i \in 1..(Len(title) + 1 + Len(artist) + 4) |->
                  LET c == (title \o <<"_">> \o artist \o <<".","m","p","3">>)[i] IN
                  IF c = " " THEN "_" ELSE LowerChar(c)],
              LAMBDA c : c \notin ReservedCharacters)

\* C11: for every title and artist the derived file name is
\* '<title>_<artist><ext>' lowercased with every space replaced by an underscore
\* and every character that is hazardous in a file name removed: it holds no
\* uppercase ASCII letter, no space, no slash, quote or colon; "Test Song" by
\* "A/B" gives test_song_ab.mp3.
C11_FilenameSafe ==
    Returned("write_to_disk") =>
        LET name == returned.filename IN
        /\ name = SafeName(probe.title, probe.artist)
        /\ \A i \in 1..Len(name) :
               /\ \A k \in 1..26 : name[i] # AsciiUpper[k]
               /\ name[i] \notin {" "} \cup ReservedCharacters
        /\ (probe.title = <<"T","e","s","t"," ","S","o","n","g">>
              /\ probe.artist = <<"A","/","B">>) =>
               name = <<"t","e","s","t","_","s","o","n","g","_","a","b",".","m","p","3">>

\* a waveform value that is a number of [0, 1]
InUnitInterval(v) == v.kind = "finite" /\ 0 <= v.num /\ v.num <= v.den

\* a waveform value that is the number zero
IsZero(v) == v.kind = "finite" /\ v.num = 0

\* C12: when the analysis of a decodable sound that is not silent returns,
\* whatever the number of frames and the signs of the samples, the waveform has
\* exactly 230 values and each of them lies in [0, 1].
C12_WaveformInRange ==
    (/\ Returned("update_audio_frames") /\ probe.decodable /\ returned.res = "ok"
     /\ \E i \in 1..Len(probe.pattern) :
            probe.pattern[i].left + probe.pattern[i].right # 0) =>
        /\ Len(returned.waveform) = 230
        /\ \A i \in 1..Len(returned.waveform) : InUnitInterval(returned.waveform[i])

\* C13: when every decoded sample is zero and the analysis returns, the
\* waveform is all zeros: no value is NaN or infinite.
C13_SilentWaveformZero ==
    (/\ Returned("update_audio_frames") /\ probe.decodable /\ returned.res = "ok"
     /\ \A i \in 1..Len(probe.pattern) :
            probe.pattern[i].left = 0 /\ probe.pattern[i].right = 0) =>
        \A i \in 1..Len(returned.waveform) : IsZero(returned.waveform[i])

\* C14: for a sound that decodes to fewer than 230 frames the analysis
\* completes and gives the all-zero waveform of length 230.
C14_ShortAudioZeroWaveform ==
    (Returned("update_audio_frames") /\ probe.decodable
        /\ probe.count < WAVEFORM_LENGTH) =>
        /\ returned.res = "ok"
        /\ Len(returned.waveform) = 230
        /\ \A i \in 1..Len(returned.waveform) : IsZero(returned.waveform[i])

\* the document has no value for the key: the key is missing, or its value is
\* null or the empty string
MissingOrEmpty(json, key) ==
    \/ ~json.is_object
    \/ key \notin DOMAIN json.fields
    \/ json.fields[key] \in {JString(<<>>), JNull}

\* C15: a merge never replaces a populated title or artist with an empty
\* value; a Song field is unchanged when the document has no value for it (for
\* the title under "title", for the artist under "artist" and "uploader"); a
\* document that is not an object changes no field.
C15_MergeKeepsFields ==
    Returned("update_metadata_from_json") =>
        /\ probe.title # <<>> => returned.song.title # <<>>
        /\ probe.artist # <<>> => returned.song.artist # <<>>
        /\ MissingOrEmpty(probe.json, "title") => returned.song.title = probe.title
        /\ (MissingOrEmpty(probe.json, "artist") /\ MissingOrEmpty(probe.json, "uploader")) =>
               returned.song.artist = probe.artist
        /\ ~probe.json.is_object =>
               returned.song = [DefaultSong EXCEPT !.title = probe.title,
                                                   !.artist = probe.artist]

\* C16: the classification of a source is one of four origins, by a fixed
\* priority: YouTube when the source holds "youtube.", also when it holds
\* "soundcloud." or names an existing file; else Soundcloud when it holds
\* "soundcloud."; else Local when it names an existing file; else Unknown.
C16_OriginPriority ==
    Returned("from_link") =>
        LET youtube == contains(probe.link, <<"y","o","u","t","u","b","e",".">>)
            soundcloud ==
                contains(probe.link, <<"s","o","u","n","d","c","l","o","u","d",".">>)
            exists == probe.link \in ExistingFiles IN
        /\ returned.origin \in {"YouTube", "Soundcloud", "Local", "Unknown"}
        /\ returned.origin = "YouTube" <=> youtube
        /\ returned.origin = "Soundcloud" <=> (~youtube /\ soundcloud)
        /\ returned.origin = "Local" <=> (~youtube /\ ~soundcloud /\ exists)
        /\ returned.origin = "Unknown" <=> (~youtube /\ ~soundcloud /\ ~exists)

\* a source that holds both host fragments and names an existing file was
\* classified as YouTube
C16_Witness ==
    /\ Returned("from_link")
    /\ probe.link = <<"s","o","u","n","d","c","l","o","u","d",".",
                      "y","o","u","t","u","b","e",".">>
    /\ probe.link \in ExistingFiles
    /\ returned.origin = "YouTube"

\* the largest number of a non-empty finite set of integers
SetMax(S) == CHOOSE m \in S : \A x \in S : x <= m

Abs(x) == IF x < 0 THEN -x ELSE x

\* twice the largest absolute mono sample of bucket i (counted from 0) when
\* count frames that repeat pattern are cut into 230 buckets
BucketAbsMax(count, pattern, i) ==
    LET size == count \div 230 IN
    SetMax({Abs(frames_of(count, pattern)[k].left + frames_of(count, pattern)[k].right) :
              k \in (i * size + 1)..((i + 1) * size)})

\* C21: for a sound of L >= 230 frames that is not silent in its buckets, the
\* analysis forms 230 buckets of floor(L/230) samples, bucket i covering the
\* samples [i*floor(L/230), (i+1)*floor(L/230)), leaves out the L mod 230
\* samples at the end, and gives each bucket the largest absolute sample of
\* the bucket divided by the largest bucket value.
C21_BucketValues ==
    (/\ Returned("update_audio_frames") /\ probe.decodable
     /\ probe.count >= 230) =>
        LET largest == SetMax({BucketAbsMax(probe.count, probe.pattern, i) : i \in 0..229}) IN
        largest # 0 =>
            /\ returned.res = "ok"
            /\ Len(returned.waveform) = 230
            /\ \A i \in 0..229 :
                   LET w == returned.waveform[i + 1] IN
                   /\ w.kind = "finite"
                   /\ w.num * largest = BucketAbsMax(probe.count, probe.pattern, i) * w.den

\* C22: an edit of the source string while a job is in flight leaves the
\* stored Origin as it was; an edit while no job is in flight sets the stored
\* Origin to the classification of the edited string.
C22_OriginOnEdit ==
    [][EditSource =>
          IF loading_song # 0
          THEN song_origin' = song_origin
          ELSE song_origin' = from_link(song'.source_url)]_vars

\* the source was edited while a job was in flight: the stored Origin is the
\* one of the source before the edit, not the classification of the new one
C22_Witness ==
    /\ loading_song # 0
    /\ jobs[loading_song].result = "none"
    /\ song.source_url # jobs[loading_song].query_url
    /\ song_origin = jobs[loading_song].song_origin
    /\ song_origin # from_link(song.source_url)

\* a query thread ran from its first statement to its return in this step
QueryRan(j) ==
    /\ jobs[j].kind = "query" /\ jobs[j].pc = "acquire"
    /\ jobs'[j].pc = "done"

\* C23: a Query whose acquisition (fs::read or download_audio) or whose
\* conversion yields zero bytes returns an error and the call that yielded
\* nothing is the last one it made; a Query that returns Ok carries a Song with
\* non-empty audio_bytes and the source_url captured when the Query started.
C23_QueryBytes ==
    [][\A j \in 1..Len(jobs) :
         QueryRan(j) =>
           LET end == jobs'[j] IN
           /\ end.error \in {"read error", "download error"} =>
                /\ end.result = "err"
                /\ end.executed \in {<< "read" >>, << "download_audio" >>}
           /\ end.error = "audio conversion error" =>
                /\ end.result = "err"
                /\ Len(end.executed) = 2
                /\ Last(end.executed) = "convert_audio"
           /\ end.result = "ok" =>
                /\ end.song.audio_bytes # 0
                /\ end.song.source_url = jobs[j].query_url]_vars

\* one Query stopped at an empty conversion and another one returned a Song
\* for a source that is not the empty string
C23_Witness ==
    /\ \E j \in 1..Len(jobs) :
         /\ jobs[j].kind = "query" /\ jobs[j].result = "err"
         /\ jobs[j].error = "audio conversion error"
         /\ Last(jobs[j].executed) = "convert_audio"
    /\ \E j \in 1..Len(jobs) :
         /\ jobs[j].kind = "query" /\ jobs[j].result = "ok"
         /\ jobs[j].song.audio_bytes # 0
         /\ jobs[j].song.source_url # << >>

\* C24: whenever no job is in flight the stored Origin is the classification
\* of the current source string, and every Query thread is started with the
\* Origin of the source it fetches.
C24_OriginMatchesSource ==
    /\ loading_song = 0 => song_origin = from_link(song.source_url)
    /\ \A j \in 1..Len(jobs) :
         jobs[j].kind = "query" /\ jobs[j].pc = "acquire" =>
           jobs[j].song_origin = from_link(jobs[j].query_url)

C27_LoadingEnds ==
    \A j \in JobIds : (loading_song = j) ~> (loading_song # j)

\* C25: all the tool invocations of one thread resolve a tool name to the
\* same path, whatever the foreground does to the tool locations meanwhile.
C25_OnePathPerJob ==
    \A i, k \in 1..Len(invocations.calls) :
      invocations.calls[i].name = invocations.calls[k].name =>
        invocations.calls[i].path = invocations.calls[k].path

\* C28: after any sequence of settings actions the names ffmpeg and yt-dlp
\* resolve to a path the user picked or to the bare name, never to the empty
\* string.
C28_NeverEmptyPath ==
    \A name \in {DEFAULT_FFMPEG_COMMAND, DEFAULT_YT_DL_COMMAND} :
      /\ get_command(command_map, name) \in ToolPaths \cup {name}
      /\ get_command(command_map, name) # << >>

====
